---- MODULE Spec2Model ----
(***************************************************************************)
(* Model of src/main.py: the Binary Combinatorial Generator.               *)
(*                                                                         *)
(* A Generator owns one mutable byte buffer.  generate_all(N) is a Python  *)
(* generator function: calling it only creates a generator object (here a  *)
(* "traversal"); each next() on it runs the code up to the next yield.     *)
(* dfs is a recursive generator, so a traversal is a stack of dfs frames,  *)
(* each with its own loop cursors.  One action is one statement (or one    *)
(* loop-head evaluation) of the running traversal; the consumer's calls    *)
(* (generate_all, next, dropping the generator) are actions too and can    *)
(* only happen while no traversal is running (a single Python thread).     *)
(*                                                                         *)
(* Runner.run drives one traversal per section count and logs each save.   *)
(*                                                                         *)
(* The byte ranges range(256) of tags, lengths, value bytes and of the     *)
(* section count are scaled down to 0..MaxTag, 0..MaxLen, 0..MaxVal and    *)
(* 0..MaxCount; the buffer capacity keeps the source's formula             *)
(* header + maxcount * (tag + length + maxlen).                            *)
(***************************************************************************)
EXTENDS Integers, Sequences, FiniteSets, TLC

\* ---------------------------------------------------------------- bounds
MaxTag == 1
MaxLen == 2
MaxVal == 1
MaxCount == 2
\* most pulls a consumer makes on one traversal in Spec
MaxPulls == 230
\* most pulls on one traversal where several traversals are combined
MaxShortPulls == 16
\* most pulls on one traversal where two traversals share a buffer
MaxSharedPulls == 3

Tags == 0..MaxTag
Lens == 0..MaxLen
Vals == 0..MaxVal

\* generator objects (traversals) and Generator instances of a run
Travs == {1, 2, 3}
Gens == {1, 2}

\* ------------------------------------------------------- program constants
\* 0xFEE1900D, kept as two 16-bit halves (0xFEE1, 0x900D)
MagicHi == 65249
MagicLo == 36877
\* Runner.run stops a count after this many files: if file_idx >= 10
FileCap == 10
\* dfs starts after the header: self.dfs(0, total_sections, 5)
\* (fault variant: the first section placed one byte too far)
HeaderLenOffByOne == 5 + 1
HeaderLen == 5

\* Header + MaxCount sections * (1 Tag + 1 Length + MaxLen Value)
Capacity == HeaderLen + MaxCount * (1 + 1 + MaxLen)

Min(a, b) == IF a < b THEN a ELSE b
Max(a, b) == IF a > b THEN a ELSE b

\* ---------------------------------------------------------- Initializer
\* itertools.product(range(256), repeat=2): tag-major, length-minor
sample_init ==
    [i \in 1..((MaxTag + 1) * (MaxLen + 1)) |->
        <<(i - 1) \div (MaxLen + 1), (i - 1) % (MaxLen + 1)>>]

\* bytearray(65540): zero-filled
byte_array_init == [i \in 1..Capacity |-> 0]

\* struct.pack('<I', x): least significant byte first
\* (fault variant: most significant byte first)
PackBE16(x) == <<(x \div 256) % 256, x % 256>>
PackLE16(x) == <<x % 256, (x \div 256) % 256>>
get_magic == PackLE16(MagicLo) \o PackLE16(MagicHi)

\* ------------------------------------------------- bytearray slice semantics
\* PySlice_AdjustIndices for step 1: negative indices count from the end,
\* everything is clamped into 0..len
AdjustIndex(i, len) ==
    IF i < 0 THEN Max(i + len, 0) ELSE Min(i, len)

\* buf[start:stop] = data : the (clamped) slice is replaced by data, so
\* the bytearray grows when the slice is shorter than data
SliceAssign(buf, start, stop, data) ==
    LET lo == AdjustIndex(start, Len(buf))
        hi == Max(AdjustIndex(stop, Len(buf)), lo)
    IN  SubSeq(buf, 1, lo) \o data \o SubSeq(buf, hi + 1, Len(buf))

\* buf[:stop]
SliceRead(buf, stop) == SubSeq(buf, 1, AdjustIndex(stop, Len(buf)))

\* ----------------------------------------------------------------- state
VARIABLES
    buffer,     \* buffer[g]: self.buffer of Generator instance g
    trav,       \* trav[t]: the generator object t (status, arguments, frames)
    emitted,    \* emitted[t]: the files the consumer of t has received, in order
    lastWrite,  \* the most recent buffer write: who, and the range asked for
    runner,     \* Runner.run: position, current count, file_idx
    saved       \* the save calls made so far, in order: count, idx, bytes written

vars == <<buffer, trav, emitted, lastWrite, runner, saved>>

\* an emitted file: an independent copy of bytes (live = FALSE), or a view
\* that still reads the buffer of generator gen up to upto (live = TRUE)
CopyOf(g, buf, offset) ==
    [live |-> FALSE, gen |-> g, upto |-> offset, data |-> SliceRead(buf, offset)]
\* (fault variant of the copy: a view aliasing the buffer)
ViewOf(g, buf, offset) ==
    [live |-> TRUE, gen |-> g, upto |-> offset, data |-> <<>>]

\* bytes(self.buffer[:offset])
Snapshot(g, buf, offset) == CopyOf(g, buf, offset)

\* self.buffer = init_tool.byte_array_init(): every Generator instance gets a
\* bytearray of its own
\* (fault variant: one bytearray shared by all instances)
SharedBufferOf(g) == 1
BufferOf(g) == g

\* the bytes a consumer sees when reading an emitted file
FileBytes(f) == IF f.live THEN SliceRead(buffer[BufferOf(f.gen)], f.upto) ELSE f.data

\* a dfs frame: arguments, position, cursor into tl_pairs (0: before the
\* first pair), current tuple of itertools.product (<<>>: not started)
Frame(sec, off) ==
    [current_sec_idx |-> sec, offset |-> off, pc |-> "test", tl |-> 0, value |-> <<>>]

NoTrav == [status |-> "none", gen |-> 0, total |-> 0, pc |-> "none", stack |-> <<>>]

Init ==
    /\ buffer = [g \in Gens |-> byte_array_init]
    /\ trav = [t \in Travs |-> NoTrav]
    /\ emitted = [t \in Travs |-> <<>>]
    /\ lastWrite = [trav |-> 0, lo |-> 0, hi |-> 0]
    /\ runner = [pc |-> "for_count", count |-> 0 - 1, file_idx |-> 0]
    /\ saved = <<>>

Started(t) == trav[t].status # "none"
Idle == \A t \in Travs : trav[t].status # "running"
Running(t) == trav[t].status = "running"
Top(t) == trav[t].stack[Len(trav[t].stack)]
InDfs(t, pc) ==
    /\ Running(t)
    /\ trav[t].pc = "dfs"
    /\ trav[t].stack # <<>>
    /\ Top(t).pc = pc

\* the stack with its top frame replaced
WithTop(t, f) == [trav[t].stack EXCEPT ![Len(trav[t].stack)] = f]

\* ------------------------------------------------------------- consumer
\* gen.generate_all(n): creates the generator object, runs nothing yet
GenerateAll(t, g, n) ==
    /\ Idle
    /\ trav[t].status = "none"
    /\ trav' = [trav EXCEPT ![t] =
          [status |-> "created", gen |-> g, total |-> n, pc |-> "magic", stack |-> <<>>]]
    /\ UNCHANGED <<buffer, emitted, lastWrite, runner, saved>>

\* next(it) on a generator that is not exhausted: run it to its next yield
Pull(t, cap) ==
    /\ Idle
    /\ trav[t].status \in {"created", "suspended"}
    /\ Len(emitted[t]) < cap
    /\ trav' = [trav EXCEPT ![t].status = "running"]
    /\ UNCHANGED <<buffer, emitted, lastWrite, runner, saved>>

\* the consumer drops a generator it has not exhausted (break in Runner.run)
Abandon(t) ==
    /\ Idle
    /\ trav[t].status \in {"created", "suspended"}
    /\ trav' = [trav EXCEPT ![t].status = "closed"]
    /\ UNCHANGED <<buffer, emitted, lastWrite, runner, saved>>

\* ---------------------------------------------------------- generate_all
\* self.buffer[0:4] = self.magic
WriteMagic(t) ==
    /\ Running(t)
    /\ trav[t].pc = "magic"
    /\ buffer' = [buffer EXCEPT ![BufferOf(trav[t].gen)] = SliceAssign(@, 0, 4, get_magic)]
    /\ lastWrite' = [trav |-> t, lo |-> 0, hi |-> 4]
    /\ trav' = [trav EXCEPT ![t].pc = "count"]
    /\ UNCHANGED <<emitted, runner, saved>>

\* a value a bytearray element can hold (range(256), scaled)
\* (fault variant: negative values are let through)
IsByteLoose(n) == n <= MaxCount
IsByte(n) == n \in 0..MaxCount

\* self.buffer[4] = total_sections, then yield from self.dfs(0, total_sections, 5)
WriteCount(t) ==
    /\ Running(t)
    /\ trav[t].pc = "count"
    /\ IF IsByte(trav[t].total)
       THEN /\ buffer' = [buffer EXCEPT ![BufferOf(trav[t].gen)][4 + 1] = trav[t].total]
            /\ lastWrite' = [trav |-> t, lo |-> 4, hi |-> 5]
            /\ trav' = [trav EXCEPT ![t].pc = "dfs",
                                    ![t].stack = <<Frame(0, HeaderLen)>>]
       ELSE \* ValueError: byte must be in range(0, 256)
            /\ trav' = [trav EXCEPT ![t].status = "error"]
            /\ UNCHANGED <<buffer, lastWrite, runner, saved>>
    /\ UNCHANGED <<emitted, runner, saved>>

\* gen.dfs(0, n, off) called directly: again only creates the generator object
CallDfs(t, g, n, off) ==
    /\ Idle
    /\ trav[t].status = "none"
    /\ trav' = [trav EXCEPT ![t] =
          [status |-> "created", gen |-> g, total |-> n, pc |-> "dfs",
           stack |-> <<Frame(0, off)>>]]
    /\ UNCHANGED <<buffer, emitted, lastWrite, runner, saved>>

\* ------------------------------------------------------------------- dfs
\* if current_sec_idx == total_sections
\* (fault variant: one section too many)
IsLeafLate(current_sec_idx, total_sections) == current_sec_idx = total_sections + 1
IsLeaf(current_sec_idx, total_sections) == current_sec_idx = total_sections

DfsTest(t) ==
    /\ InDfs(t, "test")
    /\ trav' = [trav EXCEPT ![t].stack = WithTop(t,
          [Top(t) EXCEPT !.pc =
              IF IsLeaf(Top(t).current_sec_idx, trav[t].total)
              THEN "yield" ELSE "for_tl"])]
    /\ UNCHANGED <<buffer, emitted, lastWrite, runner, saved>>

\* yield bytes(self.buffer[:offset]); the traversal is suspended here
\* (fault variant: the file is handed over without suspending)
DfsYieldEager(t) ==
    /\ InDfs(t, "yield")
    /\ emitted' = [emitted EXCEPT ![t] =
          Append(@, CopyOf(trav[t].gen, buffer[BufferOf(trav[t].gen)], Top(t).offset))]
    /\ trav' = [trav EXCEPT ![t].stack = WithTop(t, [Top(t) EXCEPT !.pc = "return"])]
    /\ UNCHANGED <<buffer, lastWrite, runner, saved>>

DfsYield(t) ==
    /\ InDfs(t, "yield")
    /\ emitted' = [emitted EXCEPT ![t] =
          Append(@, Snapshot(trav[t].gen, buffer[BufferOf(trav[t].gen)], Top(t).offset))]
    /\ trav' = [trav EXCEPT ![t].status = "suspended",
                            ![t].stack = WithTop(t, [Top(t) EXCEPT !.pc = "return"])]
    /\ UNCHANGED <<buffer, lastWrite, runner, saved>>

\* return (after the yield, or at the end of the for loop): the caller's
\* yield from ends; when the outermost dfs returns generate_all is exhausted
DfsReturn(t) ==
    /\ InDfs(t, "return")
    /\ LET rest == SubSeq(trav[t].stack, 1, Len(trav[t].stack) - 1)
       IN  trav' = [trav EXCEPT ![t].stack = rest,
                                ![t].status = IF rest = <<>> THEN "done" ELSE @,
                                ![t].pc = IF rest = <<>> THEN "end" ELSE @]
    /\ UNCHANGED <<buffer, emitted, lastWrite, runner, saved>>

\* for tl in self.tl_pairs: take the next pair, or leave the loop
\* (fault variant: the iteration starts over instead of ending)
NextPairCyclic(t) ==
    /\ InDfs(t, "for_tl")
    /\ trav' = [trav EXCEPT ![t].stack = WithTop(t,
          [Top(t) EXCEPT !.tl = (@ % Len(sample_init)) + 1, !.pc = "write_tl"])]
    /\ UNCHANGED <<buffer, emitted, lastWrite, runner, saved>>

NextPair(t) ==
    /\ InDfs(t, "for_tl")
    /\ trav' = [trav EXCEPT ![t].stack = WithTop(t,
          IF Top(t).tl < Len(sample_init)
          THEN [Top(t) EXCEPT !.tl = @ + 1, !.pc = "write_tl"]
          ELSE [Top(t) EXCEPT !.pc = "return"])]
    /\ UNCHANGED <<buffer, emitted, lastWrite, runner, saved>>

\* the offset of the next section after an empty value: offset + 2
\* (fault variant: one byte long)
empty_offset_long(offset) == offset + 3
empty_offset(offset) == offset + 2

\* new_offset = offset + 2 + length
\* (fault variants: one byte short, one byte long)
new_offset_short(offset, length) == offset + 1 + length
new_offset_long(offset, length) == offset + 3 + length
new_offset(offset, length) == offset + 2 + length

\* self.buffer[offset: offset + 2] = bytes(tl); if length == 0: recurse and
\* continue; else enter the value loop
WritePair(t) ==
    /\ InDfs(t, "write_tl")
    /\ LET f == Top(t)
           tl == sample_init[f.tl]
           length == tl[2]
       IN  /\ buffer' = [buffer EXCEPT ![BufferOf(trav[t].gen)] =
                  SliceAssign(@, f.offset, f.offset + 2, tl)]
           /\ lastWrite' = [trav |-> t, lo |-> f.offset, hi |-> f.offset + 2]
           /\ trav' = [trav EXCEPT ![t].stack =
                  IF length = 0
                  THEN Append(WithTop(t, [f EXCEPT !.pc = "for_tl"]),
                              Frame(f.current_sec_idx + 1, empty_offset(f.offset)))
                  ELSE WithTop(t, [f EXCEPT !.pc = "for_val", !.value = <<>>])]
    /\ UNCHANGED <<emitted, runner, saved>>

\* itertools.product(range(256), repeat=length): the tuple after v, the
\* rightmost position advancing fastest, with carry to the left
\* (fault variant: the leftmost position advancing fastest)
RECURSIVE OdometerNextLeft(_)
OdometerNextLeft(v) ==
    IF v[1] < MaxVal
    THEN [v EXCEPT ![1] = @ + 1]
    ELSE <<0>> \o OdometerNextLeft(Tail(v))

RECURSIVE OdometerNext(_)
OdometerNext(v) ==
    IF v[Len(v)] < MaxVal
    THEN [v EXCEPT ![Len(v)] = @ + 1]
    ELSE Append(OdometerNext(SubSeq(v, 1, Len(v) - 1)), 0)

\* itertools.product is exhausted after the tuple of all maximal bytes
\* (fault variant: exhausted as soon as the last position is maximal)
OdometerLastDigit(v) == v[Len(v)] = MaxVal
OdometerLast(v) == \A i \in 1..Len(v) : v[i] = MaxVal

\* for value in itertools.product(range(256), repeat=length)
NextValue(t) ==
    /\ InDfs(t, "for_val")
    /\ LET f == Top(t)
           length == sample_init[f.tl][2]
       IN  trav' = [trav EXCEPT ![t].stack = WithTop(t,
              IF f.value = <<>>
              THEN [f EXCEPT !.value = [i \in 1..length |-> 0], !.pc = "write_val"]
              ELSE IF OdometerLast(f.value)
                   THEN [f EXCEPT !.value = <<>>, !.pc = "for_tl"]
                   ELSE [f EXCEPT !.value = OdometerNext(@), !.pc = "write_val"])]
    /\ UNCHANGED <<buffer, emitted, lastWrite, runner, saved>>

\* self.buffer[offset + 2: offset + 2 + length] = bytes(value), then
\* yield from self.dfs(current_sec_idx + 1, total_sections, new_offset)
WriteValue(t) ==
    /\ InDfs(t, "write_val")
    /\ LET f == Top(t)
           length == sample_init[f.tl][2]
       IN  /\ buffer' = [buffer EXCEPT ![BufferOf(trav[t].gen)] =
                  SliceAssign(@, f.offset + 2, f.offset + 2 + length, f.value)]
           /\ lastWrite' = [trav |-> t, lo |-> f.offset + 2, hi |-> f.offset + 2 + length]
           /\ trav' = [trav EXCEPT ![t].stack =
                  Append(WithTop(t, [f EXCEPT !.pc = "for_val"]),
                         Frame(f.current_sec_idx + 1, new_offset(f.offset, length)))]
    /\ UNCHANGED <<emitted, runner, saved>>

\* one step of dfs in the running traversal t
DfsStep(t) ==
    \/ DfsTest(t)
    \/ DfsYield(t)
    \/ DfsReturn(t)
    \/ NextPair(t)
    \/ WritePair(t)
    \/ NextValue(t)
    \/ WriteValue(t)

\* one step of the code of the running traversal t
Step(t) ==
    \/ WriteMagic(t)
    \/ WriteCount(t)
    \/ DfsStep(t)

\* ------------------------------------------------------------------ Spec
\* one Generator, one traversal generate_all(n), n any valid section count,
\* pulled until exhaustion or until the consumer stops
Next ==
    \/ \E n \in 0..MaxCount : GenerateAll(1, 1, n)
    \/ Pull(1, MaxPulls)
    \/ Step(1)

Spec == Init /\ [][Next]_vars

Finished(t) == trav[t].status \in {"done", "closed", "error"}

\* -------------------------------------------------------------- SpecReuse
\* a fresh Generator 2 is enumerated once (traversal 3); Generator 1 is
\* enumerated by traversal 1, which the consumer may abandon after any
\* number of pulls, and afterwards by traversal 2 for the section count
\* of traversal 3
NextReuse ==
    \/ \E n \in 0..MaxCount : GenerateAll(3, 2, n)
    \/ Pull(3, MaxShortPulls)
    \/ Step(3)
    \/ /\ trav[3].status = "done" \/ Len(emitted[3]) = MaxShortPulls
       /\ \E n \in 0..MaxCount : GenerateAll(1, 1, n)
    \/ Pull(1, MaxShortPulls)
    \/ Abandon(1)
    \/ Step(1)
    \/ /\ Finished(1)
       /\ GenerateAll(2, 1, trav[3].total)
    \/ Pull(2, MaxShortPulls)
    \/ Step(2)

SpecReuse == Init /\ [][NextReuse]_vars

\* ---------------------------------------------------------------- SpecTwo
\* two Generator instances enumerate the same section count, the consumer
\* interleaving its pulls on the two traversals in any order
NextTwo ==
    \/ \E n \in 0..MaxCount : GenerateAll(1, 1, n)
    \/ /\ Started(1)
       /\ GenerateAll(2, 2, trav[1].total)
    \/ \E t \in {1, 2} : Pull(t, MaxShortPulls)
    \/ \E t \in {1, 2} : Step(t)

SpecTwo == Init /\ [][NextTwo]_vars

\* ---------------------------------------------------------------- SpecDfs
\* dfs called directly on a fresh Generator with any section count and any
\* start offset, in range or not
DfsOffsets == {HeaderLen} \cup ((Capacity - 3)..(Capacity + 1))

NextDfs ==
    \/ \E n \in 0..MaxCount, off \in DfsOffsets : CallDfs(1, 1, n, off)
    \/ Pull(1, MaxShortPulls)
    \/ DfsStep(1)

SpecDfs == Init /\ [][NextDfs]_vars

\* ------------------------------------------------------------- SpecShared
\* two generate_all calls on the same Generator, the consumer interleaving
\* its pulls on the two traversals in any order
NextShared ==
    \/ \E t \in {1, 2}, n \in 0..MaxCount : GenerateAll(t, 1, n)
    \/ \E t \in {1, 2} : Pull(t, MaxSharedPulls)
    \/ \E t \in {1, 2} : Step(t)

SpecShared == Init /\ [][NextShared]_vars

\* --------------------------------------------------------------- SpecLive
\* next(it) by a consumer that keeps pulling and holds on to the newest file
\* only (like the loop variable of a for statement)
PullNext(t) ==
    /\ Idle
    /\ trav[t].status \in {"created", "suspended"}
    /\ trav' = [trav EXCEPT ![t].status = "running"]
    /\ emitted' = [emitted EXCEPT ![t] = <<>>]
    /\ UNCHANGED <<buffer, lastWrite, runner, saved>>

\* the section counts whose traversals are pulled to exhaustion
LiveCounts == {0, 1, 2}

NextLive ==
    \/ \E n \in LiveCounts : GenerateAll(1, 1, n)
    \/ PullNext(1)
    \/ Step(1)

\* the consumer keeps pulling and the interpreter keeps running the generator
SpecLive ==
    Init /\ [][NextLive]_vars /\ WF_vars(PullNext(1)) /\ WF_vars(Step(1))

\* --------------------------------------------------------------- SpecCount
\* section counts that are no byte: negative, or past the largest byte
BadCounts == {0 - 1, MaxCount + 1}

\* generate_all with a section count that is no byte (traversal 1), on a
\* fresh Generator or after an earlier traversal of a valid count
\* (traversal 2) has been pulled some times and dropped
NextCount ==
    \/ /\ ~Started(1)
       /\ \E n \in 0..MaxCount : GenerateAll(2, 1, n)
    \/ Pull(2, MaxShortPulls)
    \/ Abandon(2)
    \/ Step(2)
    \/ /\ ~Started(2) \/ Finished(2)
       /\ \E n \in BadCounts : GenerateAll(1, 1, n)
    \/ Pull(1, MaxShortPulls)
    \/ Step(1)

SpecCount == Init /\ [][NextCount]_vars

\* ---------------------------------------------------------------- SpecRun
\* for count in range(256): the next count, file_idx = 0 and a new
\* generate_all(count) on the Runner's Generator; the generator object of
\* the previous count is gone
RunNextCount ==
    /\ runner.pc = "for_count"
    /\ Idle
    /\ IF runner.count < MaxCount
       THEN /\ runner' = [pc |-> "for_file", count |-> runner.count + 1, file_idx |-> 0]
            /\ trav' = [trav EXCEPT ![1] =
                  [status |-> "created", gen |-> 1, total |-> runner.count + 1,
                   pc |-> "magic", stack |-> <<>>]]
            /\ emitted' = [emitted EXCEPT ![1] = <<>>]
       ELSE /\ runner' = [runner EXCEPT !.pc = "end"]
            /\ UNCHANGED <<trav, emitted>>
    /\ UNCHANGED <<buffer, lastWrite, saved>>

\* for file_buffer in ...: next() on the generator
RunPull ==
    /\ runner.pc = "for_file"
    /\ Idle
    /\ trav[1].status \in {"created", "suspended"}
    /\ trav' = [trav EXCEPT ![1].status = "running"]
    /\ runner' = [runner EXCEPT !.pc = "next"]
    /\ UNCHANGED <<buffer, emitted, lastWrite, saved>>

\* if file_idx >= 10
\* (fault variant: one file late)
CapReachedLate(file_idx) == file_idx > FileCap
CapReached(file_idx) == file_idx >= FileCap

\* the generator yielded: self.save(file_buffer, count, file_idx);
\* file_idx += 1; break when the cap is reached (the generator is dropped)
RunSave ==
    /\ runner.pc = "next"
    /\ trav[1].status = "suspended"
    /\ saved' = Append(saved, [count |-> runner.count, idx |-> runner.file_idx,
                               data |-> FileBytes(emitted[1][Len(emitted[1])])])
    /\ IF CapReached(runner.file_idx + 1)
       THEN /\ runner' = [runner EXCEPT !.file_idx = @ + 1, !.pc = "for_count"]
            /\ trav' = [trav EXCEPT ![1].status = "closed"]
       ELSE /\ runner' = [runner EXCEPT !.file_idx = @ + 1, !.pc = "for_file"]
            /\ UNCHANGED trav
    /\ UNCHANGED <<buffer, emitted, lastWrite>>

\* the generator is exhausted (or raised): the inner for loop is over
RunExhausted ==
    /\ runner.pc = "next"
    /\ trav[1].status \in {"done", "error"}
    /\ runner' = [runner EXCEPT !.pc = "for_count"]
    /\ UNCHANGED <<buffer, trav, emitted, lastWrite, saved>>

NextRun ==
    \/ RunNextCount
    \/ RunPull
    \/ Step(1)
    \/ RunSave
    \/ RunExhausted

SpecRun == Init /\ [][NextRun]_vars

\* ------------------------------------------- reference (nested-loop) order
RECURSIVE Pow(_, _)
Pow(b, e) == IF e = 0 THEN 1 ELSE b * Pow(b, e - 1)

RECURSIVE Flatten(_)
Flatten(ss) == IF ss = <<>> THEN <<>> ELSE Head(ss) \o Flatten(Tail(ss))

\* all k-tuples over Vals, counted like a k-digit number (first digit slowest)
RefTuples(k) ==
    [i \in 1..Pow(MaxVal + 1, k) |->
        [j \in 1..k |-> ((i - 1) \div Pow(MaxVal + 1, k - j)) % (MaxVal + 1)]]

\* all sections: for tag, for length, for value
RefSections ==
    Flatten([a \in 1..(MaxTag + 1) |->
        Flatten([b \in 1..(MaxLen + 1) |->
            [c \in 1..Pow(MaxVal + 1, b - 1) |->
                <<a - 1, b - 1>> \o RefTuples(b - 1)[c]]])])

\* the k-th (from 0) body of n sections, section 0 being the outermost loop
RECURSIVE RefBody(_, _)
RefBody(n, k) ==
    IF n = 0 THEN <<>>
    ELSE LET inner == Pow(Len(RefSections), n - 1)
         IN  RefSections[(k \div inner) + 1] \o RefBody(n - 1, k % inner)

RefHeader(n) == <<13, 144, 225, 254, n>>
RefFile(n, k) == RefHeader(n) \o RefBody(n, k)

\* every valid file of n sections, as a set
RECURSIVE Bodies(_)
Bodies(n) ==
    IF n = 0 THEN {<<>>}
    ELSE UNION {{<<tg, l>> \o v \o r : tg \in Tags, v \in [1..l -> Vals], r \in Bodies(n - 1)}
                    : l \in Lens}
AllFiles(n) == {RefHeader(n) \o b : b \in Bodies(n)}

\* the files traversal t has emitted, as the consumer reads them now
Files(t) == [i \in 1..Len(emitted[t]) |-> FileBytes(emitted[t][i])]
FileSet(t) == {Files(t)[i] : i \in 1..Len(emitted[t])}

\* ---------------------------------------------------------------- claims
\* C1: the files of generate_all(N) come in the lexicographic cross-product
\* order (tag0, length0, value0 bytes, tag1, ...): every prefix of the emitted
\* sequence is the same-length prefix of the nested-loop enumeration, and for
\* N = 1 the first three files are header+(0,0), header+(0,1,[0]),
\* header+(0,1,[1]).
C1_Order ==
    Started(1) =>
        /\ \A i \in 1..Len(emitted[1]) : Files(1)[i] = RefFile(trav[1].total, i - 1)
        /\ (trav[1].total = 1 /\ Len(emitted[1]) >= 3) =>
              /\ Files(1)[1] = <<13, 144, 225, 254, 1, 0, 0>>
              /\ Files(1)[2] = <<13, 144, 225, 254, 1, 0, 1, 0>>
              /\ Files(1)[3] = <<13, 144, 225, 254, 1, 0, 1, 1>>
\* two sections, past the first value carry of section 0 and of section 1
C1_Witness ==
    /\ trav[1].total = 2
    /\ Len(emitted[1]) > 2 * Len(RefSections)
    /\ \E i \in 1..Len(emitted[1]) : Len(Files(1)[i]) = Capacity

\* C2: a traversal pulled until exhaustion has emitted every valid file of
\* exactly N sections exactly once: none missing, none twice.
C2_Exhaustive ==
    Started(1) =>
        /\ Cardinality(FileSet(1)) = Len(emitted[1])
        /\ trav[1].status = "done" =>
              /\ FileSet(1) = AllFiles(trav[1].total)
              /\ Len(emitted[1]) = Pow(Len(RefSections), trav[1].total)
C2_Witness ==
    /\ trav[1].status = "done"
    /\ trav[1].total = 2
    /\ Len(emitted[1]) > Len(RefSections)

\* C3: every emitted file, not only the first, begins with the bytes
\* 0D 90 E1 FE followed by the byte N.
C3_Header ==
    \A i \in 1..Len(emitted[1]) :
        /\ Len(Files(1)[i]) >= 5
        /\ SubSeq(Files(1)[i], 1, 5) = <<13, 144, 225, 254, trav[1].total>>
C3_Witness ==
    /\ trav[1].total = 2
    /\ Len(emitted[1]) > Len(RefSections)

\* whether bytes b are exactly n sections tag, length L, L value bytes
RECURSIVE WellFormed(_, _)
WellFormed(b, n) ==
    IF n = 0 THEN b = <<>>
    ELSE /\ Len(b) >= 2
         /\ b[1] \in Tags
         /\ b[2] \in Lens
         /\ Len(b) >= 2 + b[2]
         /\ \A i \in 3..(2 + b[2]) : b[i] \in Vals
         /\ WellFormed(SubSeq(b, 3 + b[2], Len(b)), n - 1)

\* the declared lengths of the n sections of a well-formed body
RECURSIVE SumLengths(_, _)
SumLengths(b, n) ==
    IF n = 0 THEN 0
    ELSE b[2] + SumLengths(SubSeq(b, 3 + b[2], Len(b)), n - 1)

\* C4: every emitted file is the 5-byte header followed by exactly N sections,
\* each one tag byte, one length byte L and exactly L value bytes, nothing
\* after the last; its size is 5 + the sum over sections of (2 + length_i).
C4_WellFormed ==
    \A i \in 1..Len(emitted[1]) :
        LET f == Files(1)[i]
            body == SubSeq(f, 6, Len(f))
        IN  /\ Len(f) >= 5
            /\ WellFormed(body, trav[1].total)
            /\ Len(f) = 5 + 2 * trav[1].total + SumLengths(body, trav[1].total)
\* a file whose sections have different lengths, the empty one included
C4_Witness ==
    \E i \in 1..Len(emitted[1]) :
        /\ trav[1].total = 2
        /\ Files(1)[i][7] = MaxLen
        /\ Files(1)[i][Len(Files(1)[i])] = 0
        /\ Len(Files(1)[i]) = 5 + 2 + MaxLen + 2

\* C6: generate_all(0) emits exactly one file, the 5-byte header alone,
\* never enters the loop over tag/length pairs, writes nothing at offsets
\* >= 5, and is then exhausted.
C6_ZeroSections ==
    (Started(1) /\ trav[1].total = 0) =>
        /\ Len(emitted[1]) <= 1
        /\ \A i \in 1..Len(emitted[1]) : Files(1)[i] = <<13, 144, 225, 254, 0>>
        /\ \A d \in 1..Len(trav[1].stack) :
              /\ trav[1].stack[d].pc \in {"test", "yield", "return"}
              /\ trav[1].stack[d].tl = 0
        /\ lastWrite.hi <= 5
        /\ trav[1].status = "done" => Len(emitted[1]) = 1
        /\ (trav[1].status = "running" /\ Len(emitted[1]) = 1) =>
              (Len(trav[1].stack) = 1 /\ Top(1).pc = "return")
C6_Witness ==
    /\ trav[1].total = 0
    /\ trav[1].status = "done"
    /\ Len(emitted[1]) = 1

\* C9: for N in 0..MaxCount every buffer write of the traversal lies below
\* 5 + N*(2+MaxLen), which is at most the capacity with equality exactly at
\* N = MaxCount; no write goes past the end of the buffer and the buffer keeps
\* its length.
C9_WriteBound ==
    /\ \A n \in 0..MaxCount :
          /\ 5 + n * (2 + MaxLen) <= Capacity
          /\ (5 + n * (2 + MaxLen) = Capacity) <=> (n = MaxCount)
    /\ \A n \in 0..255 :
          /\ 5 + n * (2 + 255) <= 65540
          /\ (5 + n * (2 + 255) = 65540) <=> (n = 255)
    /\ Len(buffer[BufferOf(1)]) = Capacity
    /\ Len(buffer[BufferOf(1)]) = Len(byte_array_init)
    /\ (Started(1) /\ trav[1].pc = "dfs") =>
          /\ lastWrite.lo >= 0
          /\ lastWrite.hi <= 5 + trav[1].total * (2 + MaxLen)
          /\ lastWrite.hi <= Len(buffer[BufferOf(1)])
          /\ \A d \in 1..Len(trav[1].stack) :
                trav[1].stack[d].offset <= 5 + trav[1].total * (2 + MaxLen)
\* the last byte of the buffer is written: N = MaxCount, all lengths maximal
C9_Witness ==
    /\ trav[1].total = MaxCount
    /\ lastWrite.hi = Capacity
    /\ lastWrite.lo = Capacity - MaxLen

\* C5 (SpecReuse): once a file has been emitted, no later buffer write, by the
\* same traversal or by a later traversal on the same Generator, changes the
\* bytes of that file.
C5_SnapshotIsolation ==
    [][\A t \in Travs : \A i \in 1..Len(emitted[t]) :
          /\ i <= Len(emitted'[t])
          /\ FileBytes(emitted[t][i])' = FileBytes(emitted[t][i])]_vars
\* a file emitted by traversal 1 whose bytes the buffer no longer holds, the
\* later traversal 2 having emitted files from the same buffer
C5_Witness ==
    /\ Len(emitted[2]) >= 2
    /\ \E i \in 1..Len(emitted[1]) :
          /\ Len(Files(1)[i]) > HeaderLen
          /\ Files(1)[i] # SliceRead(buffer[BufferOf(1)], Len(Files(1)[i]))
    /\ \E i \in 1..(Len(emitted[2]) - 1) :
          Files(2)[i] # SliceRead(buffer[BufferOf(1)], Len(Files(2)[i]))

\* C7 (SpecTwo): two Generator instances, each with its own buffer,
\* enumerating the same N emit byte-identical sequences: after K pulls on
\* each, the two sequences of K files are equal.
C7_Determinism ==
    (Started(1) /\ Started(2)) =>
        /\ trav[1].total = trav[2].total
        /\ \A i \in 1..Min(Len(emitted[1]), Len(emitted[2])) : Files(1)[i] = Files(2)[i]
        /\ Len(emitted[1]) = Len(emitted[2]) => Files(1) = Files(2)
\* both runs are several files into two sections, at different positions
C7_Witness ==
    /\ Started(1) /\ Started(2)
    /\ trav[1].total = 2
    /\ Len(emitted[1]) >= 5
    /\ Len(emitted[2]) >= 3
    /\ Len(emitted[1]) # Len(emitted[2])
    /\ buffer[BufferOf(1)] # buffer[BufferOf(2)]

\* C8 (SpecReuse): after a traversal on a Generator was abandoned after any
\* number of pulls, a new traversal on that Generator emits the same sequence
\* of files as the traversal of the same section count on a fresh buffer,
\* whatever the abandoned traversal left in the buffer.
C8_ReuseAfterAbandon ==
    Started(2) =>
        /\ trav[2].total = trav[3].total
        /\ Len(emitted[2]) <= Len(emitted[3])
        /\ \A i \in 1..Len(emitted[2]) : Files(2)[i] = Files(3)[i]
        /\ trav[2].status = "done" => Files(2) = Files(3)
\* traversal 1 was dropped with section bytes in the buffer that the new,
\* shorter traversal does not overwrite
C8_Witness ==
    /\ trav[1].status = "closed"
    /\ trav[1].total = 2
    /\ Len(emitted[1]) >= 3
    /\ trav[2].total = 1
    /\ Len(emitted[2]) >= 3
    /\ buffer[BufferOf(1)] # buffer[BufferOf(2)]
    /\ \E i \in (HeaderLen + 1)..Capacity :
          /\ buffer[BufferOf(1)][i] # 0
          /\ buffer[BufferOf(2)][i] = 0

\* C10 (SpecDfs): the enumerator never writes at a range that is not inside
\* the buffer: instead of writing out of bounds, growing the buffer or
\* emitting a corrupted file it stops with an error.
C10_FailFast ==
    /\ Len(buffer[BufferOf(1)]) = Capacity
    /\ lastWrite.trav = 1 => (0 <= lastWrite.lo /\ lastWrite.hi <= Capacity)

\* a traversal that has written to its Generator's buffer and is not finished
InFlight(t) ==
    /\ trav[t].status \in {"running", "suspended"}
    /\ trav[t].pc # "magic"

\* C11 (SpecShared): the buffer of a Generator is owned by one in-flight
\* traversal at a time: never have two unfinished traversals of the same
\* Generator both written to its buffer, and the bytes a suspended traversal
\* left in the buffer (its last file) are not overwritten between its pulls.
C11_ExclusiveOwner ==
    /\ \A t1, t2 \in Travs :
          (t1 # t2 /\ InFlight(t1) /\ InFlight(t2)) => trav[t1].gen # trav[t2].gen
    /\ \A t \in Travs :
          (trav[t].status = "suspended" /\ emitted[t] # <<>>) =>
              Files(t)[Len(emitted[t])] =
                  SliceRead(buffer[BufferOf(trav[t].gen)], Top(t).offset)

\* the traversal is at a leaf: about to yield, or suspended in the yield
AtEmission(t) ==
    /\ trav[t].pc = "dfs"
    /\ trav[t].stack # <<>>
    /\ Top(t).pc \in {"yield", "return"}
    /\ IsLeaf(Top(t).current_sec_idx, trav[t].total)

\* the (tag, length) and value currently selected by the frame of a section
Selected(f) == sample_init[f.tl] \o f.value

\* C12 (Spec): at every emission each section level of the current DFS path
\* has its selected (tag, length, value) in the buffer at its own range
\* [offset_i, offset_i + 2 + length_i); these ranges and the header tile
\* [0, writeOffset) without gap or overlap, so the emitted file is exactly the
\* header followed by the selections and holds no byte of an earlier branch.
C12_Coherent ==
    AtEmission(1) =>
        LET st == trav[1].stack
            buf == buffer[BufferOf(1)]
            n == trav[1].total
        IN  /\ Len(st) = n + 1
            /\ st[1].offset = 5
            /\ SubSeq(buf, 1, 5) = <<13, 144, 225, 254, n>>
            /\ \A d \in 1..n :
                  /\ st[d].tl \in 1..Len(sample_init)
                  /\ Len(st[d].value) = sample_init[st[d].tl][2]
                  /\ SubSeq(buf, st[d].offset + 1, st[d].offset + 2 + Len(st[d].value))
                        = Selected(st[d])
                  /\ st[d + 1].offset = st[d].offset + 2 + Len(st[d].value)
            /\ trav[1].status = "suspended" =>
                  Files(1)[Len(emitted[1])] =
                      <<13, 144, 225, 254, n>> \o Flatten([d \in 1..n |-> Selected(st[d])])
\* a file is emitted while bytes of an earlier, longer branch still lie in
\* the buffer right behind it
C12_Witness ==
    /\ AtEmission(1)
    /\ trav[1].status = "suspended"
    /\ trav[1].total = 2
    /\ Top(1).offset < Capacity
    /\ buffer[BufferOf(1)][Top(1).offset + 1] # 0
    /\ trav[1].stack[1].value = <<>>

\* the save calls made for section count c
SavedFor(c) == {i \in 1..Len(saved) : saved[i].count = c}

\* C13 (SpecRun): Runner.run visits the section counts in ascending order,
\* finishing all saves of a count before the first save of the next; per
\* count it saves the files of the enumeration in emission order under the
\* indices 0, 1, 2, ...; never more than 10 files per count, and exactly 10
\* for every count that has at least 10 files.
C13_RunnerOrder ==
    /\ \A i, j \in 1..Len(saved) : i < j => saved[i].count <= saved[j].count
    /\ \A i \in 1..Len(saved) :
          /\ saved[i].count \in 0..runner.count
          /\ saved[i].idx = Cardinality({j \in SavedFor(saved[i].count) : j < i})
          /\ saved[i].data = RefFile(saved[i].count, saved[i].idx)
    /\ \A c \in 0..MaxCount :
          /\ Cardinality(SavedFor(c)) <= 10
          /\ (c < runner.count \/ runner.pc = "end") =>
                Cardinality(SavedFor(c)) = Min(10, Pow(Len(RefSections), c))
    /\ runner.pc = "end" => runner.count = MaxCount
C13_Witness ==
    /\ runner.pc = "end"
    /\ Cardinality(SavedFor(0)) = 1
    /\ Cardinality(SavedFor(1)) = 10
    /\ Cardinality(SavedFor(2)) = 10

\* C14 (Spec): a traversal suspends exactly at leaf emissions: a pull ends
\* with exactly one more file (or with exhaustion and none), nothing is
\* written while the traversal is not running (between two pulls, before the
\* first), and the header is written once, during the first pull, before any
\* section byte.
C14_Suspension ==
    /\ [](Started(1) =>
            /\ trav[1].status = "created" =>
                  (buffer[BufferOf(1)] = byte_array_init /\ emitted[1] = <<>>)
            /\ trav[1].pc \in {"magic", "count"} =>
                  (emitted[1] = <<>> /\ trav[1].stack = <<>> /\ lastWrite.hi <= 5)
            /\ trav[1].status \in {"suspended", "done"} =>
                  /\ trav[1].pc \in {"dfs", "end"}
                  /\ SubSeq(buffer[BufferOf(1)], 1, 5) = <<13, 144, 225, 254, trav[1].total>>
            /\ trav[1].status = "suspended" => AtEmission(1))
    /\ [][/\ ~Running(1) =>
                (buffer' = buffer /\ lastWrite' = lastWrite /\ emitted' = emitted)
          /\ emitted'[1] # emitted[1] =>
                /\ Running(1)
                /\ AtEmission(1)
                /\ trav'[1].status = "suspended"
                /\ Len(emitted'[1]) = Len(emitted[1]) + 1
                /\ SubSeq(emitted'[1], 1, Len(emitted[1])) = emitted[1]
          /\ (Running(1) /\ trav'[1].status # "running") =>
                \/ /\ trav'[1].status = "suspended"
                   /\ Len(emitted'[1]) = Len(emitted[1]) + 1
                \/ /\ trav'[1].status = "done"
                   /\ emitted' = emitted
          /\ (Started(1) /\ trav[1].pc # "magic") => trav'[1].pc # "magic"
          /\ (Started(1) /\ trav[1].pc \notin {"magic", "count"}) =>
                SubSeq(buffer'[BufferOf(1)], 1, 5) = SubSeq(buffer[BufferOf(1)], 1, 5)
       ]_vars
\* the traversal rests between two pulls, several files into two sections
C14_Witness ==
    /\ trav[1].status = "suspended"
    /\ trav[1].total = 2
    /\ Len(emitted[1]) > Len(RefSections)
    /\ lastWrite.lo > 5

\* C15 (SpecLive): every traversal is finite: a consumer that keeps pulling
\* reaches the exhaustion of generate_all(N), and from then on no file is
\* emitted and the buffer is not written.
C15_Terminates ==
    /\ Started(1) ~> (trav[1].status = "done")
    /\ [][trav[1].status = "done" =>
            /\ trav'[1].status = "done"
            /\ emitted' = emitted
            /\ buffer' = buffer
            /\ lastWrite' = lastWrite]_vars
C15_Witness ==
    /\ trav[1].status = "done"
    /\ trav[1].total = 2
    /\ trav[1].stack = <<>>
    /\ lastWrite.hi > 5

\* C16 (Spec): the recursion depth is bounded by the section count: a traversal
\* for N never has more than N + 1 active dfs frames, the frame at depth d
\* (from 0) has current_sec_idx = d, and current_sec_idx never exceeds N.
C16_Depth ==
    Started(1) =>
        /\ Len(trav[1].stack) <= trav[1].total + 1
        /\ \A d \in 1..Len(trav[1].stack) :
              /\ trav[1].stack[d].current_sec_idx = d - 1
              /\ trav[1].stack[d].current_sec_idx <= trav[1].total
\* the deepest recursion of the largest section count, in the value loops
C16_Witness ==
    /\ trav[1].total = MaxCount
    /\ Len(trav[1].stack) = MaxCount + 1
    /\ \A d \in 1..MaxCount : trav[1].stack[d].pc = "for_val"

\* C17 (SpecCount): for a section count that is no byte, generate_all emits
\* no file: the first pull fails when the count is stored at offset 4, before
\* any section byte is written; of the buffer only offsets 0..3 (the magic)
\* may have changed, and its length is still the capacity.
C17_BadCount ==
    /\ [](Started(1) =>
            /\ trav[1].total \notin 0..MaxCount
            /\ emitted[1] = <<>>
            /\ trav[1].stack = <<>>
            /\ trav[1].status \in {"created", "running", "error"}
            /\ trav[1].pc \in {"magic", "count"}
            /\ Len(buffer[BufferOf(1)]) = Capacity
            /\ lastWrite.trav = 1 => (lastWrite.lo = 0 /\ lastWrite.hi = 4)
            /\ trav[1].status = "error" =>
                  /\ trav[1].pc = "count"
                  /\ SubSeq(buffer[BufferOf(1)], 1, 4) = <<13, 144, 225, 254>>)
    /\ [][Started(1) =>
            \A i \in 5..Capacity : buffer'[BufferOf(1)][i] = buffer[BufferOf(1)][i]]_vars
\* the pull has failed on a count past the largest byte, in a buffer that
\* still holds the count and section bytes of an earlier traversal
C17_Witness ==
    /\ trav[1].status = "error"
    /\ trav[1].total = MaxCount + 1
    /\ trav[2].status = "closed"
    /\ buffer[BufferOf(1)][5] = MaxCount
    /\ \E i \in 6..Capacity : buffer[BufferOf(1)][i] # 0

====
